---- MODULE Spec2Model ----
(***************************************************************************)
(* Breakpoint-pair clustering engine (structural_variant/cluster.py):      *)
(* proximity graph, maximal k-clique search with redundancy resolution,    *)
(* ordered hierarchical merge and the classification driver; the batch     *)
(* splitting of the cluster step (mavis/cluster/main.py).                  *)
(*                                                                         *)
(* An Interval is a tuple <<start, end>>; an IntervalPair is a record      *)
(* [start, end, id].  Distances are kept as integers scaled by 4 (centers  *)
(* are half-integers and dist halves their summed differences), averages   *)
(* as fractions <<numerator, denominator>> compared by cross-multiplying.  *)
(***************************************************************************)
EXTENDS Integers, Sequences, FiniteSets, TLC

\* ------------------------------------------------------------------ bounds
MaxPairs == 4
MaxCoord == 2
MaxWidth == 1
MaxR == 1
MaxK == 3
MaxInputs == 2
MaxGroups == 3
MaxObjects == 2
MaxClusters == 5
MaxPerFile == 2
MaxFiles == 3

\* id of an IntervalPair built without one (id=None)
NoId == 0 - 1
\* default clique size of _redundant_maximal_kcliques(G, k=10)
DefaultK == 10

\* --------------------------------------------------------------- Interval
Abs(x) == IF x < 0 THEN 0 - x ELSE x

\* Interval(start, end=None): a point when end is omitted
Interval(s, e) == <<s, e>>
Point(s) == <<s, s>>
IntervalLen(i) == i[2] - i[1] + 1
\* twice the center (start + end) / 2
center2(i) == i[1] + i[2]
IntervalLt(a, b) == a[1] < b[1] \/ (a[1] = b[1] /\ a[2] < b[2])

RECURSIVE SumF(_, _)
SumF(f, S) ==
    IF S = {} THEN 0
    ELSE LET x == CHOOSE y \in S : TRUE IN f[x] + SumF(f, S \ {x})

\* round(n / d) for n >= 0, d > 0, halves to the even neighbour
RoundDiv(n, d) ==
    LET q == n \div d
        m == n % d
    IN  IF 2 * m < d THEN q
        ELSE IF 2 * m > d THEN q + 1
        ELSE IF q % 2 = 0 THEN q ELSE q + 1

\* ----------------------------------------------------------- IntervalPair
IntervalPair(s, e, i) == [start |-> s, end |-> e, id |-> i]

\* variant: the id is not compared
IntervalPairEq_NoId(a, b) == ~(a.start # b.start \/ a.end # b.end)

\* IntervalPair.__eq__ for two IntervalPairs
IntervalPairEq(a, b) == ~(a.start # b.start \/ a.end # b.end \/ a.id # b.id)

\* IntervalPair.__hash__: the tuple that is hashed
IntervalPairHash(a) == <<a.start, a.end, a.id>>

\* a set or dict of IntervalPairs, in insertion order: an element is added
\* unless one with the same hash that compares equal is already there
SetAdd(acc, x) ==
    IF \E i \in 1..Len(acc) :
           IntervalPairHash(acc[i]) = IntervalPairHash(x) /\ IntervalPairEq(acc[i], x)
    THEN acc ELSE Append(acc, x)

RECURSIVE SetFrom(_, _)
SetFrom(sq, acc) == IF sq = <<>> THEN acc ELSE SetFrom(Tail(sq), SetAdd(acc, Head(sq)))

\* IntervalPair.__lt__
PairLt(a, b) ==
    \/ IntervalLt(a.start, b.start)
    \/ (a.start = b.start /\ IntervalLt(a.end, b.end))

\* variant: the difference of the start centers keeps its sign
dist4_Signed(a, b) ==
    (center2(a.start) - center2(b.start)) + Abs(center2(a.end) - center2(b.end))

\* 4 * IntervalPair.dist(a, b)
dist4(a, b) ==
    Abs(center2(a.start) - center2(b.start)) + Abs(center2(a.end) - center2(b.end))

\* variant: a distance equal to r does not count
WithinR_Strict(a, b, rad) == dist4(a, b) < 4 * rad

\* curr.dist(other) <= r
WithinR(a, b, rad) == dist4(a, b) <= 4 * rad

\* Interval.weighted_mean over the start (which = 1) or end (which = 2)
\* intervals of the members of the group S, each weighted by its length
WeightedMeanOf(S, which) ==
    LET iv(n) == IF which = 1 THEN n.start ELSE n.end
        tot == SumF([n \in S |-> IntervalLen(iv(n))], S)
        ss  == SumF([n \in S |-> iv(n)[1] * IntervalLen(iv(n))], S)
        es  == SumF([n \in S |-> iv(n)[2] * IntervalLen(iv(n))], S)
    IN  Interval(RoundDiv(ss, tot), RoundDiv(es, tot))

\* variant: the start is computed from the end fields and the end from the
\* start fields
weighted_mean_Swapped(S) == IntervalPair(WeightedMeanOf(S, 2), WeightedMeanOf(S, 1), NoId)

\* IntervalPair.weighted_mean(interval_pairs)
weighted_mean(S) == IntervalPair(WeightedMeanOf(S, 1), WeightedMeanOf(S, 2), NoId)

\* ------------------------------------------------- iteration order of sets
\* Python iterates a set in hash order; ho selects one of two total orders
\* on nodes (ascending or descending by (id, start, end)).
NodeKey(n) == <<n.id, n.start[1], n.start[2], n.end[1], n.end[2]>>

RECURSIVE TupleLt(_, _)
TupleLt(a, b) ==
    IF a = <<>> \/ b = <<>> THEN FALSE
    ELSE IF Head(a) # Head(b) THEN Head(a) < Head(b)
    ELSE TupleLt(Tail(a), Tail(b))

HashBefore(a, b, ho) ==
    IF ho = "asc" THEN TupleLt(NodeKey(a), NodeKey(b))
    ELSE TupleLt(NodeKey(b), NodeKey(a))

RECURSIVE IterSet(_, _)
IterSet(S, ho) ==
    IF S = {} THEN <<>>
    ELSE LET x == CHOOSE y \in S : \A z \in S \ {y} : HashBefore(y, z, ho)
         IN  <<x>> \o IterSet(S \ {x}, ho)

Range(sq) == {sq[i] : i \in 1..Len(sq)}

\* ------------------------------------------------------------------ graph
\* nx.Graph: nodes in insertion order, edges as sets {u, v} ({u} = self-loop)
EmptyGraph == [nodes |-> <<>>, edges |-> {}]

add_node(g, n) == [g EXCEPT !.nodes = SetAdd(@, n)]

add_edge(g, u, v) ==
    [nodes |-> add_node(add_node(g, u), v).nodes, edges |-> g.edges \cup {{u, v}}]

has_edge(g, u, v) == {u, v} \in g.edges

\* IntervalPair.cluster, lines 142-145: only add_edge, never add_node
RECURSIVE BuildEdges(_, _, _, _, _)
BuildEdges(g, prs, rad, i, j) ==
    IF i >= Len(prs) THEN g
    ELSE IF j > Len(prs) THEN BuildEdges(g, prs, rad, i + 1, i + 2)
    ELSE BuildEdges(IF WithinR(prs[i], prs[j], rad) THEN add_edge(g, prs[i], prs[j]) ELSE g,
                    prs, rad, i, j + 1)

ClusterGraph(prs, rad) == BuildEdges(EmptyGraph, prs, rad, 1, 2)

\* the graph the unit tests hand to clique search: add_node for every pair,
\* then the same edge loop
RECURSIVE AddNodes(_, _)
AddNodes(g, prs) ==
    IF prs = <<>> THEN g ELSE AddNodes(add_node(g, Head(prs)), Tail(prs))

TestGraph(prs, rad) == BuildEdges(AddNodes(EmptyGraph, prs), prs, rad, 1, 2)

\* variant: only negative k is rejected
InvalidK_NegativeOnly(kk) == kk < 0

\* line 56: k < 1
InvalidK(kk) == kk < 1

\* is_complete(G, N)
is_complete(g, N) == \A u \in N, v \in N : u # v => has_edge(g, u, v)

\* nx.connected_components(G): one set per component, in the order in which
\* G's nodes first reach them
RECURSIVE Reach(_, _)
Reach(g, S) ==
    LET T == S \cup {m \in Range(g.nodes) : \E s \in S : has_edge(g, s, m)}
    IN  IF T = S THEN S ELSE Reach(g, T)

RECURSIVE ComponentsFrom(_, _, _)
ComponentsFrom(g, i, seen) ==
    IF i > Len(g.nodes) THEN <<>>
    ELSE IF g.nodes[i] \in seen THEN ComponentsFrom(g, i + 1, seen)
    ELSE LET c == Reach(g, {g.nodes[i]})
         IN  <<c>> \o ComponentsFrom(g, i + 1, seen \cup c)

connected_components(g) == ComponentsFrom(g, 1, {})

\* itertools.combinations(sq, t): the t-subsequences of sq, lexicographic by position
RECURSIVE combinations(_, _)
combinations(sq, t) ==
    IF t = 0 THEN << <<>> >>
    ELSE IF Len(sq) < t THEN <<>>
    ELSE LET withHead == combinations(Tail(sq), t - 1)
         IN  [i \in 1..Len(withHead) |-> <<Head(sq)>> \o withHead[i]]
             \o combinations(Tail(sq), t)

\* lines 65-68 for one component: every complete combination, sizes 1..k
RECURSIVE CliquesOfSize(_, _, _)
CliquesOfSize(g, combs, i) ==
    IF i > Len(combs) THEN <<>>
    ELSE (IF is_complete(g, Range(combs[i])) THEN <<Range(combs[i])>> ELSE <<>>)
         \o CliquesOfSize(g, combs, i + 1)

\* variant: range(1, k + 2), one size too many
RECURSIVE CliquesOfComponent_UpToKPlus1(_, _, _, _)
CliquesOfComponent_UpToKPlus1(g, compSeq, ktemp, kk) ==
    IF ktemp > kk + 1 THEN <<>>
    ELSE CliquesOfSize(g, combinations(compSeq, ktemp), 1)
         \o CliquesOfComponent_UpToKPlus1(g, compSeq, ktemp + 1, kk)

RECURSIVE CliquesOfComponent(_, _, _, _)
CliquesOfComponent(g, compSeq, ktemp, kk) ==
    IF ktemp > kk THEN <<>>
    ELSE CliquesOfSize(g, combinations(compSeq, ktemp), 1)
         \o CliquesOfComponent(g, compSeq, ktemp + 1, kk)

\* lines 61-68
RECURSIVE EnumerateFrom(_, _, _, _, _)
EnumerateFrom(g, comps, c, kk, ho) ==
    IF c > Len(comps) THEN <<>>
    ELSE CliquesOfComponent(g, IterSet(comps[c], ho), 1, kk)
         \o EnumerateFrom(g, comps, c + 1, kk, ho)

EnumerateCliques(g, kk, ho) == EnumerateFrom(g, connected_components(g), 1, kk, ho)

\* variant: range(i, len(cliques)), a clique is compared with itself
IsSubsetOfLater_FromSelf(cl, i) == \E j \in i..Len(cl) : cl[i] \subseteq cl[j]

\* variant: a clique is compared with the next clique only
IsSubsetOfLater_NextOnly(cl, i) == i < Len(cl) /\ cl[i] \subseteq cl[i + 1]

\* lines 71-79: keep cliques[i] unless it is a subset of a later clique
IsSubsetOfLater(cl, i) == \E j \in (i + 1)..Len(cl) : cl[i] \subseteq cl[j]

RECURSIVE RefineFrom(_, _)
RefineFrom(cl, i) ==
    IF i > Len(cl) THEN <<>>
    ELSE (IF IsSubsetOfLater(cl, i) THEN <<>> ELSE <<cl[i]>>) \o RefineFrom(cl, i + 1)

RemoveSubsets(cl) == RefineFrom(cl, 1)

\* lines 81-84: the participation dict, keys in order of first insertion
RECURSIVE FirstSeen(_, _, _, _)
FirstSeen(rc, i, ho, acc) ==
    IF i > Len(rc) THEN acc
    ELSE LET sq == IterSet(rc[i], ho)
             new == SelectSeq(sq, LAMBDA n : n \notin Range(acc))
         IN  FirstSeen(rc, i + 1, ho, acc \o new)

CountOf(rc, n) == Cardinality({i \in 1..Len(rc) : n \in rc[i]})

\* (count, node) tuple comparison used by sorted(...)
CountNodeLt(a, b) ==
    IF a[1] # b[1] THEN a[1] < b[1] ELSE PairLt(a[2], b[2])

\* sorted(..., reverse=True): descending, equal elements keep their order
RECURSIVE InsertDesc(_, _)
InsertDesc(sorted, x) ==
    IF sorted = <<>> THEN <<x>>
    ELSE IF CountNodeLt(Head(sorted), x) THEN <<x>> \o sorted
    ELSE <<Head(sorted)>> \o InsertDesc(Tail(sorted), x)

RECURSIVE SortDesc(_, _)
SortDesc(sq, acc) ==
    IF sq = <<>> THEN acc ELSE SortDesc(Tail(sq), InsertDesc(acc, Head(sq)))

\* variant: the participation dict is walked in its own order, count > 1
ResolutionOrder_Unsorted(rc, ho) ==
    LET keys  == FirstSeen(rc, 1, ho, <<>>)
        items == [i \in 1..Len(keys) |-> <<CountOf(rc, keys[i]), keys[i]>>]
    IN  SelectSeq(items, LAMBDA it : it[1] > 1)

\* line 86: the (count, node) list the resolution loop walks
ResolutionOrder(rc, ho) ==
    LET keys  == FirstSeen(rc, 1, ho, <<>>)
        items == [i \in 1..Len(keys) |-> <<CountOf(rc, keys[i]), keys[i]>>]
    IN  SortDesc(SelectSeq(items, LAMBDA it : it[1] > 1), <<>>)

\* line 91: sum of distances from node to the other members, and len - 1
FracLt(a, b) == a[1] * b[2] < b[1] * a[2]
SumDist(node, cluster) == SumF([x \in cluster \ {node} |-> dist4(node, x)], cluster \ {node})
\* variant: the sum is not divided by the number of other members
Score_Sum(node, cluster) == <<SumDist(node, cluster), 1>>
Score(node, cluster) == <<SumDist(node, cluster), Cardinality(cluster) - 1>>
Containing(rc, node) == {i \in 1..Len(rc) : node \in rc[i]}

\* line 91 divides by len(cluster) - 1
DividesByZero(rc, node) == \E i \in Containing(rc, node) : Cardinality(rc[i]) = 1

\* variant: score >= lowest, the node leaves the best clique as well
RemoveFromWorse_GE(rc, node) ==
    LET idx == Containing(rc, node)
    IN  [i \in 1..Len(rc) |-> IF i \in idx THEN rc[i] \ {node} ELSE rc[i]]

\* variant: the node stays in one best clique only
RemoveFromWorse_KeepOne(rc, node) ==
    LET idx == Containing(rc, node)
        lowest == CHOOSE i \in idx : \A j \in idx :
                      /\ ~FracLt(Score(node, rc[j]), Score(node, rc[i]))
                      /\ (~FracLt(Score(node, rc[i]), Score(node, rc[j])) => i <= j)
    IN  [i \in 1..Len(rc) |->
            IF i \in idx /\ i # lowest THEN rc[i] \ {node} ELSE rc[i]]

\* variant: the cliques scoring above the lowest score are emptied
RemoveFromWorse_Clear(rc, node) ==
    LET idx == Containing(rc, node)
        lowest == CHOOSE i \in idx : \A j \in idx : ~FracLt(Score(node, rc[j]), Score(node, rc[i]))
    IN  [i \in 1..Len(rc) |->
            IF i \in idx /\ FracLt(Score(node, rc[lowest]), Score(node, rc[i]))
            THEN {} ELSE rc[i]]

\* lines 93-96: node leaves the cliques scoring above the lowest score
RemoveFromWorse(rc, node) ==
    LET idx == Containing(rc, node)
        lowest == CHOOSE i \in idx : \A j \in idx : ~FracLt(Score(node, rc[j]), Score(node, rc[i]))
    IN  [i \in 1..Len(rc) |->
            IF i \in idx /\ FracLt(Score(node, rc[lowest]), Score(node, rc[i]))
            THEN rc[i] \ {node} ELSE rc[i]]

\* lines 98-106
LostNodes(g, rc) == {n \in Range(g.nodes) : \A i \in 1..Len(rc) : n \notin rc[i]}

\* ------------------------------------------------------ hierarchical merge
\* sorted(groups, key=weighted_mean): ascending by IntervalPair.__lt__ of the
\* keys, groups with equal keys keep their order
RECURSIVE InsertGroup(_, _)
InsertGroup(sorted, x) ==
    IF sorted = <<>> THEN <<x>>
    ELSE IF PairLt(weighted_mean(x), weighted_mean(Head(sorted))) THEN <<x>> \o sorted
    ELSE <<Head(sorted)>> \o InsertGroup(Tail(sorted), x)

RECURSIVE SortGroupsInto(_, _)
SortGroupsInto(sq, acc) ==
    IF sq = <<>> THEN acc ELSE SortGroupsInto(Tail(sq), InsertGroup(acc, Head(sq)))

SortGroups(sq) == SortGroupsInto(sq, <<>>)

\* weighted_mean(a).dist(weighted_mean(b)) <= r
GroupsWithinR(a, b, rad) == WithinR(weighted_mean(a), weighted_mean(b), rad)

\* variant: a union is appended even when it is already in temp_queue
AppendNew_Always(tq, d) == Append(tq, d)

AppendNew(tq, d) == IF d \in Range(tq) THEN tq ELSE Append(tq, d)

\* variant: a group is compared with its predecessor only
RECURSIVE PassFrom_PrevOnly(_, _, _, _, _)
PassFrom_PrevOnly(q, rad, i, tq, cg) ==
    IF i > Len(q) THEN <<tq, cg>>
    ELSE LET curr == q[i]
             mprev == i > 1 /\ GroupsWithinR(q[i - 1], curr, rad)
             tq1 == IF mprev THEN AppendNew(tq, curr \cup q[i - 1]) ELSE tq
         IN  PassFrom_PrevOnly(q, rad, i + 1, tq1, IF mprev THEN cg ELSE Append(cg, curr))

\* variant: the last group of the queue is never put in the output
RECURSIVE PassFrom_SkipsLast(_, _, _, _, _)
PassFrom_SkipsLast(q, rad, i, tq, cg) ==
    IF i > Len(q) THEN <<tq, cg>>
    ELSE LET curr == q[i]
             mprev == i > 1 /\ GroupsWithinR(q[i - 1], curr, rad)
             mnext == i < Len(q) /\ GroupsWithinR(q[i + 1], curr, rad)
             tq1 == IF mprev THEN AppendNew(tq, curr \cup q[i - 1]) ELSE tq
             tq2 == IF mnext THEN AppendNew(tq1, curr \cup q[i + 1]) ELSE tq1
         IN  PassFrom_SkipsLast(q, rad, i + 1, tq2,
                                IF mprev \/ mnext \/ i = Len(q) THEN cg ELSE Append(cg, curr))

\* lines 116-135: one pass over the queue; returns the pair
\* <<temp_queue, complete_groups>>
RECURSIVE PassFrom(_, _, _, _, _)
PassFrom(q, rad, i, tq, cg) ==
    IF i > Len(q) THEN <<tq, cg>>
    ELSE LET curr == q[i]
             mprev == i > 1 /\ GroupsWithinR(q[i - 1], curr, rad)
             mnext == i < Len(q) /\ GroupsWithinR(q[i + 1], curr, rad)
             tq1 == IF mprev THEN AppendNew(tq, curr \cup q[i - 1]) ELSE tq
             tq2 == IF mnext THEN AppendNew(tq1, curr \cup q[i + 1]) ELSE tq1
         IN  PassFrom(q, rad, i + 1, tq2,
                      IF mprev \/ mnext THEN cg ELSE Append(cg, curr))

HasEmptyGroup(sq) == \E i \in 1..Len(sq) : sq[i] = {}

\* lines 114-137: the while loop from a sorted queue, and the whole function
\* for a list of non-empty groups
RECURSIVE MergeLoop(_, _, _)
MergeLoop(q, rad, cg) ==
    IF q = <<>> THEN cg
    ELSE LET p == PassFrom(q, rad, 1, <<>>, cg)
         IN  MergeLoop(SortGroups(p[1]), rad, p[2])

HierarchicalClustering(gs, rad) == MergeLoop(SortGroups(gs), rad, <<>>)

\* ------------------------------------------------ the functions as a whole
\* lines 86-96: the resolution loop over the (count, node) items td
RECURSIVE ResolveAll(_, _)
ResolveAll(rc, td) ==
    IF td = <<>> THEN [error |-> "none", cliques |-> rc]
    ELSE LET node == Head(td)[2]
         IN  IF DividesByZero(rc, node) THEN [error |-> "ZeroDivisionError", cliques |-> rc]
             ELSE IF Containing(rc, node) = {} THEN [error |-> "ValueError", cliques |-> rc]
             ELSE ResolveAll(RemoveFromWorse(rc, node), Tail(td))

\* _redundant_maximal_kcliques(G, k) when sets of nodes iterate in order ho
MaximalKcliques(g, kk, ho) ==
    IF InvalidK(kk) THEN [error |-> "AttributeError", cliques |-> <<>>]
    ELSE LET rc0 == RemoveSubsets(EnumerateCliques(g, kk, ho))
             res == ResolveAll(rc0, ResolutionOrder(rc0, ho))
         IN  IF res.error = "none" /\ LostNodes(g, res.cliques) # {}
             THEN [error |-> "AssertionError", cliques |-> res.cliques]
             ELSE res

\* IntervalPair.cluster(pairs, r, k): the exception raised, if any, and the
\* set of groups returned
ClusterOutcome(prs, rad, kk, ho) ==
    LET c == MaximalKcliques(ClusterGraph(prs, rad), kk, ho)
    IN  IF c.error # "none" THEN [error |-> c.error, groups |-> {}]
        ELSE IF HasEmptyGroup(c.cliques) THEN [error |-> "EmptyInputError", groups |-> {}]
        ELSE [error |-> "none", groups |-> Range(HierarchicalClustering(c.cliques, rad))]

\* ------------------------------------------- Breakpoint and BreakpointPair
\* ORIENT: "L", "R", "?" (not specified); STRAND: "+", "-", "?";
\* opposing_strands: "True", "False", "None"
Breakpoint(chr, start, end, strand, orient) ==
    [chr |-> chr, start |-> start, end |-> end, orient |-> orient, strand |-> strand]

\* ORIENT.expand
ExpandOrient(o) == IF o = "?" THEN <<"L", "R">> ELSE <<o>>

\* order of the one-character strings that occur in keys
CharRank(c) ==
    CASE c = "+" -> 1 [] c = "-" -> 2 [] c = "1" -> 3 [] c = "2" -> 4
      [] c = "?" -> 5 [] c = "L" -> 6 [] c = "R" -> 7

\* Breakpoint.key, as a tuple of integers in the order of the Python key
BreakpointKey(b) == <<CharRank(b.chr), b.start, b.end, CharRank(b.orient), CharRank(b.strand)>>

BoolStr(b) == IF b THEN "True" ELSE "False"

\* BreakpointPair.classify raises InvalidRearrangement
ClassifyRaises(b1, b2, opp) ==
    IF opp = "True"
    THEN (b1.orient = "L" /\ b2.orient = "R") \/ (b1.orient = "R" /\ b2.orient = "L")
    ELSE (b1.orient = "L" /\ b2.orient = "L") \/ (b1.orient = "R" /\ b2.orient = "R")

\* variant: the orientations are checked before the agreement of
\* opposing_strands with the strands
BreakpointPair_OrientFirst(b1, b2, opposing_strands) ==
    LET swap == TupleLt(BreakpointKey(b2), BreakpointKey(b1))
        break1 == IF swap THEN b2 ELSE b1
        break2 == IF swap THEN b1 ELSE b2
        bothStrands == break1.strand # "?" /\ break2.strand # "?"
        opposing == BoolStr(break1.strand # break2.strand)
        opp == IF bothStrands /\ opposing_strands = "None" THEN opposing ELSE opposing_strands
        err == IF /\ break1.orient # "?" /\ break2.orient # "?" /\ opp # "None"
                  /\ \/ (break1.orient = break2.orient /\ opp = "False")
                     \/ (break1.orient # break2.orient /\ opp = "True")
                   THEN "InvalidRearrangement"
               ELSE IF bothStrands /\ opposing_strands # "None" /\ opposing_strands # opposing
                   THEN "AttributeError"
               ELSE IF opp = "None" THEN "AttributeError"
               ELSE IF ClassifyRaises(break1, break2, opp) THEN "InvalidRearrangement"
               ELSE "none"
    IN  [error |-> err, break1 |-> break1, break2 |-> break2, opposing_strands |-> opp]

\* variant: opposing_strands is never inferred from the strands
BreakpointPair_NoInference(b1, b2, opposing_strands) ==
    LET swap == TupleLt(BreakpointKey(b2), BreakpointKey(b1))
        break1 == IF swap THEN b2 ELSE b1
        break2 == IF swap THEN b1 ELSE b2
        bothStrands == break1.strand # "?" /\ break2.strand # "?"
        opposing == BoolStr(break1.strand # break2.strand)
        opp == opposing_strands
        err == IF bothStrands /\ opposing_strands # "None" /\ opposing_strands # opposing
                   THEN "AttributeError"
               ELSE IF /\ break1.orient # "?" /\ break2.orient # "?" /\ opp # "None"
                       /\ \/ (break1.orient = break2.orient /\ opp = "False")
                          \/ (break1.orient # break2.orient /\ opp = "True")
                   THEN "InvalidRearrangement"
               ELSE IF opp = "None" THEN "AttributeError"
               ELSE IF ClassifyRaises(break1, break2, opp) THEN "InvalidRearrangement"
               ELSE "none"
    IN  [error |-> err, break1 |-> break1, break2 |-> break2, opposing_strands |-> opp]

\* BreakpointPair.__init__: the constructed pair and the exception raised, if any
BreakpointPair(b1, b2, opposing_strands) ==
    LET swap == TupleLt(BreakpointKey(b2), BreakpointKey(b1))
        break1 == IF swap THEN b2 ELSE b1
        break2 == IF swap THEN b1 ELSE b2
        bothStrands == break1.strand # "?" /\ break2.strand # "?"
        opposing == BoolStr(break1.strand # break2.strand)
        opp == IF bothStrands /\ opposing_strands = "None" THEN opposing ELSE opposing_strands
        err == IF bothStrands /\ opposing_strands # "None" /\ opposing_strands # opposing
                   THEN "AttributeError"
               ELSE IF /\ break1.orient # "?" /\ break2.orient # "?" /\ opp # "None"
                       /\ \/ (break1.orient = break2.orient /\ opp = "False")
                          \/ (break1.orient # break2.orient /\ opp = "True")
                   THEN "InvalidRearrangement"
               ELSE IF opp = "None" THEN "AttributeError"
               ELSE IF ClassifyRaises(break1, break2, opp) THEN "InvalidRearrangement"
               ELSE "none"
    IN  [error |-> err, break1 |-> break1, break2 |-> break2, opposing_strands |-> opp]

\* BreakpointPair defines neither __eq__ nor __hash__: two pairs compare equal
\* only when they are the same object (i, j: positions in the list of objects)
BreakpointPairEq(i, j) == i = j

\* Interval.__getitem__: 0 is start, 1 is end, anything else is an IndexError
GetItemRaises(index) == index \notin {0, 1}
GetItem(iv, index) == IF index = 0 THEN iv[1] ELSE iv[2]

\* ------------------------------------------------ cluster_breakpoint_pairs
\* lines 180-195 for one input: the (key, node) entries it produces, in order
RECURSIVE EntriesOf(_, _, _, _)
EntriesOf(bpp, index, o1s, o2s) ==
    IF o1s = <<>> THEN <<>>
    ELSE IF o2s = <<>> THEN EntriesOf(bpp, index, Tail(o1s), ExpandOrient(bpp.break2.orient))
    ELSE LET s1 == bpp.break1.strand
             s2 == bpp.break2.strand
             skip == bpp.opposing_strands # BoolStr(s1 # s2) /\ s1 # "?" /\ s2 # "?"
             key == <<bpp.break1.chr, bpp.break2.chr, Head(o1s), Head(o2s), s1, s2,
                      bpp.opposing_strands>>
             node == IntervalPair(Interval(bpp.break1.start, bpp.break1.end),
                                  Interval(bpp.break2.start, bpp.break2.end), index)
         IN  (IF skip THEN <<>> ELSE << <<key, node>> >>)
             \o EntriesOf(bpp, index, o1s, Tail(o2s))

\* variant: buckets are told apart by chromosomes and orientations only
SetDefaultAppend_ChrOrient(ns, key, node) ==
    LET same(a, b) == \A j \in 1..4 : a[j] = b[j]
    IN  IF \E i \in 1..Len(ns) : same(ns[i].key, key)
        THEN [i \in 1..Len(ns) |->
                IF same(ns[i].key, key) THEN [ns[i] EXCEPT !.group = Append(@, node)]
                ELSE ns[i]]
        ELSE Append(ns, [key |-> key, group |-> <<node>>])

\* node_sets.setdefault(key, []).append(node): a dict in insertion order
SetDefaultAppend(ns, key, node) ==
    IF \E i \in 1..Len(ns) : ns[i].key = key
    THEN [i \in 1..Len(ns) |->
            IF ns[i].key = key THEN [ns[i] EXCEPT !.group = Append(@, node)] ELSE ns[i]]
    ELSE Append(ns, [key |-> key, group |-> <<node>>])

RECURSIVE AddEntries(_, _)
AddEntries(ns, es) ==
    IF es = <<>> THEN ns
    ELSE AddEntries(SetDefaultAppend(ns, Head(es)[1], Head(es)[2]), Tail(es))

\* lines 176-195
RECURSIVE ClassifyFrom(_, _, _)
ClassifyFrom(ips, i, ns) ==
    IF i > Len(ips) THEN ns
    ELSE ClassifyFrom(ips, i + 1,
            AddEntries(ns, EntriesOf(ips[i], i - 1, ExpandOrient(ips[i].break1.orient),
                                     ExpandOrient(ips[i].break2.orient))))

Classify(ips) == ClassifyFrom(ips, 1, <<>>)

\* lines 201-204
MultiParticipation(group, clusters) ==
    \E i \in 1..Len(group) :
        Cardinality({c \in 1..Len(clusters) : group[i] \in clusters[c]}) > 1

\* lines 205-211 for the clusters of one bucket: the exception raised, if any,
\* and the result dict.  BreakpointPair defines neither __eq__ nor __hash__,
\* so every consensus pair is a new key: the dict is the sequence of its
\* entries [bpp, inputs], inputs being the indices of the input pairs
RECURSIVE MaterializeFrom(_, _, _, _)
MaterializeFrom(key, clusters, i, res) ==
    IF i > Len(clusters) THEN [error |-> "none", result |-> res]
    ELSE LET ip == weighted_mean(clusters[i])
         IN  IF GetItemRaises(0) \/ GetItemRaises(1) \/ GetItemRaises(2)
             THEN [error |-> "IndexError", result |-> res]
             ELSE LET b1 == Breakpoint(key[1], GetItem(ip.start, 0), GetItem(ip.start, 1),
                                       key[5], key[3])
                      b2 == Breakpoint(key[2], GetItem(ip.end, 0), GetItem(ip.end, 2),
                                       key[6], key[4])
                      made == BreakpointPair(b1, b2, key[7])
                      bpp == [break1 |-> made.break1, break2 |-> made.break2,
                              opposing_strands |-> made.opposing_strands]
                      inputs == {n.id : n \in clusters[i]}
                  IN  IF made.error # "none" THEN [error |-> made.error, result |-> res]
                      ELSE MaterializeFrom(key, clusters, i + 1,
                               Append(res, [bpp |-> bpp, inputs |-> inputs]))

\* ------------------------------------------------------------------ inputs
\* bounded family: up to MaxPairs pairs whose two intervals are [x, x + w],
\* w = 0 or MaxWidth, listed in non-decreasing (x, w) order, ids 0, 1, ...
\* as the driver gives them
Shapes == (0..MaxCoord) \X {0, MaxWidth}
ShapeLe(a, b) == a[1] < b[1] \/ (a[1] = b[1] /\ a[2] <= b[2])
ShapeLists ==
    UNION {{f \in [1..n -> Shapes] : \A i \in 1..(n - 1) : ShapeLe(f[i], f[i + 1])}
           : n \in 0..MaxPairs}
PairsOf(f) ==
    [i \in 1..Len(f) |->
        IntervalPair(Interval(f[i][1], f[i][1] + f[i][2]),
                     Interval(f[i][1], f[i][1] + f[i][2]), i - 1)]
GenPairs == {PairsOf(f) : f \in ShapeLists}

\* the pairs of test__redundant_maximal_kcliques (ids a..e as 0..4)
PtPair(s, e, i) == IntervalPair(Point(s), Point(e), i)
KcliquesPairs1 ==
    <<PtPair(1, 100, 0), PtPair(1, 101, 1), PtPair(10, 90, 2), PtPair(15, 85, 3),
      PtPair(40, 45, 4)>>
KcliquesPairs2 ==
    <<PtPair(1, 100, 0), PtPair(1, 101, 1), PtPair(6, 94, 2), PtPair(15, 85, 3),
      PtPair(40, 45, 4)>>
\* test__redundant_maximal_kcliques_equidistant
EquidistantPairs == <<PtPair(0, 0, 0), PtPair(10, 10, 1), PtPair(5, 5, 2)>>
\* test__redundant_ordered_hierarchical_clustering
HierA == PtPair(1, 1, NoId)
HierB == PtPair(10, 10, NoId)
HierC == IntervalPair(Interval(15, 20), Interval(15, 20), NoId)
HierD == PtPair(24, 24, NoId)
HierE == PtPair(33, 33, NoId)
HierGroups == <<{HierA, HierB}, {HierC}, {HierD, HierE}>>

\* test_sets
SetsTestPairs ==
    <<IntervalPair(Interval(1, 3), Interval(1, 3), 1),
      IntervalPair(Interval(1, 3), Interval(1, 3), 1),
      IntervalPair(Interval(1, 3), Interval(1, 3), 2)>>

\* test_dist
DistX == IntervalPair(Interval(1, 1), Interval(10, 11), NoId)
DistY == IntervalPair(Interval(1, 1), Interval(40, 41), NoId)

\* a call of IntervalPair.cluster with two pairs at the same place (ids 0 and
\* 1) next to a point and a wider interval: [pairs, r, k]
TiedMeanPairs ==
    <<PtPair(1, 1, 0), PtPair(1, 1, 1), PtPair(2, 2, 2),
      IntervalPair(Interval(2, 4), Interval(2, 4), 3)>>
TiedMeanCall == [pairs |-> TiedMeanPairs, r |-> 1, k |-> 1]

\* bounded family for the hierarchical merge: up to MaxGroups one-member
\* groups of point pairs (s, e), listed in non-decreasing (s, e) order
GroupShapes == (0..1) \X (0..(MaxCoord + 1))
GroupShapeLists ==
    UNION {{f \in [1..n -> GroupShapes] : \A i \in 1..(n - 1) : ShapeLe(f[i], f[i + 1])}
           : n \in 0..MaxGroups}
GenGroups == {[i \in 1..Len(f) |-> {PtPair(f[i][1], f[i][2], i - 1)}] : f \in GroupShapeLists}

\* the calls the unit tests make: [pairs, r, k]
TestCalls ==
    {[pairs |-> KcliquesPairs1, r |-> 10, k |-> DefaultK],
     [pairs |-> KcliquesPairs2, r |-> 10, k |-> DefaultK],
     [pairs |-> EquidistantPairs, r |-> 5, k |-> DefaultK]}

\* inputs of cluster_breakpoint_pairs: BreakpointPairs that construction
\* accepts, strands not specified; break1 on chr 1 at 1 or 3, break2 at 5 on
\* chr 1, or on chr 2 for two of the pairs
OrientCases == {<<"L", "R", "False">>, <<"?", "R", "False">>, <<"L", "?", "True">>,
                <<"?", "?", "True">>}
BppCandidates ==
    {BreakpointPair(Breakpoint("1", x, x, "?", oc[1]), Breakpoint("1", 5, 5, "?", oc[2]), oc[3]) :
        x \in {1, 3}, oc \in OrientCases}
    \cup
    {BreakpointPair(Breakpoint("1", 1, 1, "?", oc[1]), Breakpoint("2", 5, 5, "?", oc[2]), oc[3]) :
        oc \in {<<"L", "R", "False">>, <<"?", "?", "True">>}}
BppPool ==
    {[break1 |-> m.break1, break2 |-> m.break2, opposing_strands |-> m.opposing_strands] :
        m \in {c \in BppCandidates : c.error = "none"}}
\* three inputs in a row, one base apart at both ends: with r = 1 the middle
\* one is as close to the first as to the last
SharedNodeInputs ==
    [i \in 1..3 |->
        [break1 |-> Breakpoint("1", i + 1, i + 1, "?", "L"),
         break2 |-> Breakpoint("1", i + 5, i + 5, "?", "R"),
         opposing_strands |-> "False"]]
\* four inputs at the same positions of chr 1: the first and the last are
\* alike, the others differ from them in strands, orientations or
\* opposing_strands
StrandedInputs ==
    LET mk(s1, o1, s2, o2, os) ==
            LET m == BreakpointPair(Breakpoint("1", 1, 1, s1, o1),
                                    Breakpoint("1", 5, 5, s2, o2), os)
            IN  [break1 |-> m.break1, break2 |-> m.break2,
                 opposing_strands |-> m.opposing_strands]
    IN  <<mk("+", "L", "+", "R", "False"), mk("+", "L", "-", "L", "True"),
          mk("?", "?", "?", "?", "False"), mk("+", "L", "+", "R", "False")>>
InputLists ==
    UNION {[1..n -> BppPool] : n \in 0..MaxInputs} \cup {SharedNodeInputs, StrandedInputs}

\* arguments of BreakpointPair(b1, b2, opposing_strands=...): breakpoints at
\* 1 or 5 on chr 1 or at 5 on chr 2, any strand and orientation
CtorBreaks ==
    {Breakpoint(c[1], c[2], c[2], s, o) :
        c \in {<<"1", 1>>, <<"1", 5>>, <<"2", 5>>}, s \in {"+", "-", "?"}, o \in {"L", "R", "?"}}
CtorArgs == [b1 : CtorBreaks, b2 : CtorBreaks, opposing_strands : {"True", "False", "None"}]
NoArgs == <<>>

\* ---------------------------------------------- batch splitting (main.py)
\* lines 145-147: the number of clusters per batch file
JobSize(n, m, f) == IF n \div m > f - 1 THEN RoundDiv(n, f) ELSE m

\* list(range(0, n, step)) for step > 0
PyRange(n, step) == [i \in 1..((n + step - 1) \div step) |-> (i - 1) * step]

\* lines 152-155: the (from, to) pairs of the batches
JobRanges(n, step) ==
    LET jr  == PyRange(n, step)
        jr2 == IF Len(jr) = 0 \/ jr[Len(jr)] # n THEN Append(jr, n) ELSE jr
    IN  [i \in 1..(Len(jr2) - 1) |-> <<jr2[i], jr2[i + 1]>>]

\* clusters[a:b]
Slice(sq, a, b) == SubSeq(sq, a + 1, b)

\* the calls of the batch splitting: n clusters, numbered from 1
MainCalls ==
    [clusters : {[i \in 1..n |-> i] : n \in 0..MaxClusters},
     min_clusters_per_file : 1..MaxPerFile,
     max_files : 1..MaxFiles]

\* ------------------------------------------------------------------- state
VARIABLES
    cluster_keys,     \* main: the list clusters of line 144
    min_clusters_per_file, max_files,   \* main: arguments
    JOB_SIZE,
    job_ranges,
    output_files,     \* main: names of the batch files written
    file_rows,        \* main: the clusters written to each batch file
    entry,            \* the function called: "cluster_breakpoint_pairs", "cluster",
                      \* "kcliques", "hierarchical" or "BreakpointPair"
    args,             \* BreakpointPair: the arguments of the call
    objects,          \* BreakpointPair: the pairs constructed so far
    hashOrder,        \* iteration order of sets of nodes
    input_pairs,      \* cluster_breakpoint_pairs: the input list
    node_sets,        \* cluster_breakpoint_pairs: buckets in insertion order
    bucket,           \* index of the bucket being clustered
    result,           \* cluster_breakpoint_pairs: entries [bpp, inputs] of the dict
    pairs, r, k,      \* arguments of IntervalPair.cluster
    G,                \* the proximity graph
    cliques,          \* _redundant_maximal_kcliques: every clique found
    refined_cliques,  \* ... after subset removal, then after resolution
    todo,             \* ... the (count, node) items still to resolve
    groups,           \* argument of the hierarchical merge
    queue,
    complete_groups,
    warned,           \* warnings emitted
    error,            \* the exception raised, "none" if none
    pc

mainVars == <<cluster_keys, min_clusters_per_file, max_files, JOB_SIZE, job_ranges,
              output_files, file_rows>>

vars == <<mainVars, entry, args, objects, hashOrder, input_pairs, node_sets, bucket, result, pairs, r, k, G,
          cliques, refined_cliques, todo, groups, queue, complete_groups, warned, error, pc>>

NoMain ==
    /\ cluster_keys = <<>> /\ min_clusters_per_file = 1 /\ max_files = 1
    /\ JOB_SIZE = 1 /\ job_ranges = <<>> /\ output_files = <<>> /\ file_rows = <<>>

Blank ==
    /\ input_pairs = <<>> /\ node_sets = <<>> /\ bucket = 0 /\ result = <<>>
    /\ G = EmptyGraph /\ cliques = <<>> /\ refined_cliques = <<>> /\ todo = <<>>
    /\ groups = <<>> /\ queue = <<>> /\ complete_groups = <<>>
    /\ warned = {} /\ error = "none"
    /\ NoMain
    /\ args = NoArgs /\ objects = <<>>

InitCluster ==
    /\ entry = "cluster" /\ pc = "cluster"
    /\ \/ pairs \in GenPairs /\ r \in {0, MaxR} /\ k \in 0..MaxK
       \/ pairs = TiedMeanCall.pairs /\ r = TiedMeanCall.r /\ k = TiedMeanCall.k
    /\ hashOrder \in {"asc", "desc"}
    /\ Blank

InitKcliques ==
    /\ entry = "kcliques" /\ pc = "kcliques"
    /\ hashOrder \in {"asc", "desc"}
    /\ \/ pairs \in GenPairs /\ r \in {0, MaxR} /\ k \in 0..MaxK
       \/ \E t \in TestCalls : pairs = t.pairs /\ r = t.r /\ k = t.k
    /\ input_pairs = <<>> /\ node_sets = <<>> /\ bucket = 0 /\ result = <<>>
    /\ G = TestGraph(pairs, r)
    /\ cliques = <<>> /\ refined_cliques = <<>> /\ todo = <<>>
    /\ groups = <<>> /\ queue = <<>> /\ complete_groups = <<>>
    /\ warned = {} /\ error = "none"
    /\ NoMain
    /\ args = NoArgs /\ objects = <<>>

InitHierarchical ==
    /\ entry = "hierarchical" /\ pc = "hierarchical"
    /\ pairs = <<>> /\ k = DefaultK /\ hashOrder = "asc"
    /\ input_pairs = <<>> /\ node_sets = <<>> /\ bucket = 0 /\ result = <<>>
    /\ G = EmptyGraph /\ cliques = <<>> /\ refined_cliques = <<>> /\ todo = <<>>
    /\ \/ groups = HierGroups /\ r = 12
       \/ groups \in GenGroups /\ r \in {0, MaxR}
    /\ queue = <<>> /\ complete_groups = <<>>
    /\ warned = {} /\ error = "none"
    /\ NoMain
    /\ args = NoArgs /\ objects = <<>>

InitDriver ==
    /\ entry = "cluster_breakpoint_pairs" /\ pc = "classify"
    /\ input_pairs \in InputLists /\ r \in {0, MaxR} /\ k \in {0, MaxK}
    /\ hashOrder = "asc"
    /\ pairs = <<>> /\ node_sets = <<>> /\ bucket = 0 /\ result = <<>>
    /\ G = EmptyGraph /\ cliques = <<>> /\ refined_cliques = <<>> /\ todo = <<>>
    /\ groups = <<>> /\ queue = <<>> /\ complete_groups = <<>>
    /\ warned = {} /\ error = "none"
    /\ NoMain
    /\ args = NoArgs /\ objects = <<>>

InitConstruct ==
    /\ entry = "BreakpointPair" /\ pc = "construct"
    /\ args \in CtorArgs /\ objects = <<>>
    /\ pairs = <<>> /\ r = 0 /\ k = DefaultK /\ hashOrder = "asc"
    /\ input_pairs = <<>> /\ node_sets = <<>> /\ bucket = 0 /\ result = <<>>
    /\ G = EmptyGraph /\ cliques = <<>> /\ refined_cliques = <<>> /\ todo = <<>>
    /\ groups = <<>> /\ queue = <<>> /\ complete_groups = <<>>
    /\ warned = {} /\ error = "none"
    /\ NoMain

\* main, at line 141
InitMain ==
    /\ entry = "main" /\ pc = "main"
    /\ \E c \in MainCalls :
          /\ cluster_keys = c.clusters
          /\ min_clusters_per_file = c.min_clusters_per_file
          /\ max_files = c.max_files
    /\ JOB_SIZE = 1 /\ job_ranges = <<>> /\ output_files = <<>> /\ file_rows = <<>>
    /\ pairs = <<>> /\ r = 0 /\ k = DefaultK /\ hashOrder = "asc"
    /\ input_pairs = <<>> /\ node_sets = <<>> /\ bucket = 0 /\ result = <<>>
    /\ G = EmptyGraph /\ cliques = <<>> /\ refined_cliques = <<>> /\ todo = <<>>
    /\ groups = <<>> /\ queue = <<>> /\ complete_groups = <<>>
    /\ warned = {} /\ error = "none"
    /\ args = NoArgs /\ objects = <<>>

Init ==
    \/ InitCluster \/ InitKcliques \/ InitHierarchical \/ InitDriver \/ InitConstruct
    \/ InitMain

Raise(e) == error' = e /\ pc' = "raised"

\* ----------------------------------------------------------------- actions
\* cluster_breakpoint_pairs, lines 176-195
ClassifyInputs ==
    /\ pc = "classify"
    /\ node_sets' = Classify(input_pairs)
    /\ pc' = "buckets"
    /\ UNCHANGED <<mainVars, entry, args, objects, hashOrder, input_pairs, bucket, result, pairs, r, k, G, cliques,
                   refined_cliques, todo, groups, queue, complete_groups, warned, error>>

\* line 198-200: the next bucket's group goes to IntervalPair.cluster
NextBucket ==
    /\ pc = "buckets" /\ bucket < Len(node_sets)
    /\ bucket' = bucket + 1
    /\ pairs' = node_sets[bucket + 1].group
    /\ pc' = "cluster"
    /\ UNCHANGED <<mainVars, entry, args, objects, hashOrder, input_pairs, node_sets, result, r, k, G, cliques,
                   refined_cliques, todo, groups, queue, complete_groups, warned, error>>

\* line 212
ReturnResult ==
    /\ pc = "buckets" /\ bucket = Len(node_sets)
    /\ pc' = "done"
    /\ UNCHANGED <<mainVars, entry, args, objects, hashOrder, input_pairs, node_sets, bucket, result, pairs, r, k, G,
                   cliques, refined_cliques, todo, groups, queue, complete_groups, warned,
                   error>>

\* IntervalPair.cluster, lines 142-145
BuildGraph ==
    /\ pc = "cluster"
    /\ G' = ClusterGraph(pairs, r)
    /\ pc' = "kcliques"
    /\ UNCHANGED <<mainVars, entry, args, objects, hashOrder, input_pairs, node_sets, bucket, result, pairs, r, k,
                   cliques, refined_cliques, todo, groups, queue, complete_groups, warned,
                   error>>

\* _redundant_maximal_kcliques, lines 56-59
CheckK ==
    /\ pc = "kcliques"
    /\ IF InvalidK(k) THEN Raise("AttributeError") /\ warned' = warned
       ELSE /\ pc' = "enumerate" /\ error' = error
            /\ warned' = IF k >= 20 THEN warned \cup {"k >= 20"} ELSE warned
    /\ UNCHANGED <<mainVars, entry, args, objects, hashOrder, input_pairs, node_sets, bucket, result, pairs, r, k, G,
                   cliques, refined_cliques, todo, groups, queue, complete_groups>>

\* lines 61-68
Enumerate ==
    /\ pc = "enumerate"
    /\ cliques' = EnumerateCliques(G, k, hashOrder)
    /\ pc' = "refine"
    /\ UNCHANGED <<mainVars, entry, args, objects, hashOrder, input_pairs, node_sets, bucket, result, pairs, r, k, G,
                   refined_cliques, todo, groups, queue, complete_groups, warned, error>>

\* lines 70-86: subset removal, participation counts, resolution order
Refine ==
    /\ pc = "refine"
    /\ refined_cliques' = RemoveSubsets(cliques)
    /\ todo' = ResolutionOrder(refined_cliques', hashOrder)
    /\ pc' = "resolve"
    /\ UNCHANGED <<mainVars, entry, args, objects, hashOrder, input_pairs, node_sets, bucket, result, pairs, r, k, G,
                   cliques, groups, queue, complete_groups, warned, error>>

\* lines 86-96, one iteration of the loop
ResolveNode ==
    /\ pc = "resolve" /\ todo # <<>>
    /\ LET node == Head(todo)[2]
       IN  IF DividesByZero(refined_cliques, node)
           THEN Raise("ZeroDivisionError") /\ UNCHANGED <<refined_cliques, todo>>
           ELSE IF Containing(refined_cliques, node) = {}
           THEN Raise("ValueError") /\ UNCHANGED <<refined_cliques, todo>>
           ELSE /\ refined_cliques' = RemoveFromWorse(refined_cliques, node)
                /\ todo' = Tail(todo)
                /\ UNCHANGED <<pc, error>>
    /\ UNCHANGED <<mainVars, entry, args, objects, hashOrder, input_pairs, node_sets, bucket, result, pairs, r, k, G,
                   cliques, groups, queue, complete_groups, warned>>

\* lines 98-107; cluster() hands the cliques to the hierarchical merge
ReturnCliques ==
    /\ pc = "resolve" /\ todo = <<>>
    /\ IF LostNodes(G, refined_cliques) # {}
       THEN Raise("AssertionError") /\ groups' = groups
       ELSE /\ error' = error
            /\ IF entry = "kcliques" THEN pc' = "done" /\ groups' = groups
               ELSE pc' = "hierarchical" /\ groups' = refined_cliques
    /\ UNCHANGED <<mainVars, entry, args, objects, hashOrder, input_pairs, node_sets, bucket, result, pairs, r, k, G,
                   cliques, refined_cliques, todo, queue, complete_groups, warned>>

\* _redundant_ordered_hierarchical_clustering, lines 111-112
SortQueue ==
    /\ pc = "hierarchical"
    /\ IF HasEmptyGroup(groups)
       THEN Raise("EmptyInputError") /\ UNCHANGED <<queue, complete_groups>>
       ELSE /\ queue' = SortGroups(groups)
            /\ complete_groups' = <<>>
            /\ pc' = "merge" /\ error' = error
    /\ UNCHANGED <<mainVars, entry, args, objects, hashOrder, input_pairs, node_sets, bucket, result, pairs, r, k, G,
                   cliques, refined_cliques, todo, groups, warned>>

\* lines 114-136, one iteration of the while loop
MergePass ==
    /\ pc = "merge" /\ queue # <<>>
    /\ LET p == PassFrom(queue, r, 1, <<>>, complete_groups)
       IN  /\ queue' = SortGroups(p[1])
           /\ complete_groups' = p[2]
    /\ UNCHANGED <<mainVars, entry, args, objects, hashOrder, input_pairs, node_sets, bucket, result, pairs, r, k, G,
                   cliques, refined_cliques, todo, groups, warned, error, pc>>

\* line 137 (and line 150 of cluster)
ReturnGroups ==
    /\ pc = "merge" /\ queue = <<>>
    /\ pc' = IF entry = "cluster_breakpoint_pairs" THEN "materialize" ELSE "done"
    /\ UNCHANGED <<mainVars, entry, args, objects, hashOrder, input_pairs, node_sets, bucket, result, pairs, r, k, G,
                   cliques, refined_cliques, todo, groups, queue, complete_groups, warned,
                   error>>

\* cluster_breakpoint_pairs, lines 201-211 for the current bucket
Materialize ==
    /\ pc = "materialize"
    /\ warned' = IF MultiParticipation(pairs, complete_groups)
                 THEN warned \cup {"multiple clusters"} ELSE warned
    /\ LET m == MaterializeFrom(node_sets[bucket].key, complete_groups, 1, result)
       IN  /\ result' = m.result
           /\ IF m.error # "none" THEN Raise(m.error)
              ELSE pc' = "buckets" /\ error' = error
    /\ UNCHANGED <<mainVars, entry, args, objects, hashOrder, input_pairs, node_sets, bucket, pairs, r, k, G, cliques,
                   refined_cliques, todo, groups, queue, complete_groups>>

\* BreakpointPair.__init__, breakpoint.py lines 97-129
Construct ==
    /\ pc = "construct"
    /\ LET made == BreakpointPair(args.b1, args.b2, args.opposing_strands)
       IN  IF made.error # "none" THEN Raise(made.error) /\ objects' = objects
           ELSE /\ objects' = Append(objects,
                                     [args |-> args, break1 |-> made.break1,
                                      break2 |-> made.break2,
                                      opposing_strands |-> made.opposing_strands])
                /\ pc' = "constructed" /\ error' = error
    /\ UNCHANGED <<mainVars, entry, args, hashOrder, input_pairs, node_sets, bucket, result, pairs, r, k,
                   G, cliques, refined_cliques, todo, groups, queue, complete_groups, warned>>

\* the caller constructs the pair once more, the two breakpoints given in
\* the same or in the other order
ConstructAgain ==
    /\ pc = "constructed" /\ Len(objects) < MaxObjects
    /\ args' \in {args, [args EXCEPT !.b1 = args.b2, !.b2 = args.b1]}
    /\ pc' = "construct"
    /\ UNCHANGED <<mainVars, entry, objects, hashOrder, input_pairs, node_sets, bucket, result, pairs, r,
                   k, G, cliques, refined_cliques, todo, groups, queue, complete_groups, warned,
                   error>>

\* everything outside main's frame
restVars == <<entry, args, objects, hashOrder, input_pairs, node_sets, bucket, result, pairs, r, k,
              G, cliques, refined_cliques, todo, groups, queue, complete_groups, warned>>

\* main, lines 144-148
ChooseJobSize ==
    /\ pc = "main"
    /\ LET n  == Len(cluster_keys)
           js == JobSize(n, min_clusters_per_file, max_files)
       IN  /\ JOB_SIZE' = js
           /\ IF n \div min_clusters_per_file > max_files - 1
              THEN IF js = 0 THEN Raise("ZeroDivisionError")
                   ELSE IF ~(n \div js <= max_files) THEN Raise("AssertionError")
                   ELSE pc' = "job_ranges" /\ error' = error
              ELSE pc' = "job_ranges" /\ error' = error
    /\ UNCHANGED <<cluster_keys, min_clusters_per_file, max_files, job_ranges, output_files,
                   file_rows, restVars>>

\* main, lines 152-155
MakeJobRanges ==
    /\ pc = "job_ranges"
    /\ IF JOB_SIZE = 0 THEN Raise("ValueError") /\ job_ranges' = job_ranges
       ELSE /\ job_ranges' = JobRanges(Len(cluster_keys), JOB_SIZE)
            /\ pc' = "write" /\ error' = error
    /\ UNCHANGED <<cluster_keys, min_clusters_per_file, max_files, JOB_SIZE, output_files,
                   file_rows, restVars>>

\* main, lines 157-161, one iteration of the loop
WriteBatch ==
    /\ pc = "write" /\ Len(output_files) < Len(job_ranges)
    /\ LET i      == Len(output_files)
           jrange == job_ranges[i + 1]
       IN  /\ output_files' = Append(output_files, i + 1)
           /\ file_rows' = Append(file_rows, Slice(cluster_keys, jrange[1], jrange[2]))
    /\ UNCHANGED <<cluster_keys, min_clusters_per_file, max_files, JOB_SIZE, job_ranges,
                   restVars, error, pc>>

\* main, line 164
ReturnFiles ==
    /\ pc = "write" /\ Len(output_files) = Len(job_ranges)
    /\ pc' = "done"
    /\ UNCHANGED <<mainVars, restVars, error>>

Next ==
    \/ ChooseJobSize \/ MakeJobRanges \/ WriteBatch \/ ReturnFiles
    \/ Construct \/ ConstructAgain
    \/ ClassifyInputs \/ NextBucket \/ ReturnResult
    \/ BuildGraph \/ CheckK \/ Enumerate \/ Refine \/ ResolveNode \/ ReturnCliques
    \/ SortQueue \/ MergePass \/ ReturnGroups \/ Materialize

Spec == Init /\ [][Next]_vars

\* ------------------------------------------------------------- properties
\* _redundant_maximal_kcliques has returned its list (refined_cliques)
KcliquesReturned ==
    \/ entry = "kcliques" /\ pc = "done"
    \/ entry \in {"cluster", "cluster_breakpoint_pairs"} /\ pc = "hierarchical"

InSomeClique(n) == \E i \in 1..Len(refined_cliques) : n \in refined_cliques[i]

\* a resolution step has taken some node out of some clique
ResolutionRemoved ==
    /\ Len(refined_cliques) = Len(RemoveSubsets(cliques))
    /\ \E i \in 1..Len(refined_cliques) : refined_cliques[i] # RemoveSubsets(cliques)[i]

\* C1: during and after redundancy resolution every node of G is in at least
\* one clique, and the 'lost a node' AssertionError is never raised.
C1_NoNodeLost ==
    /\ entry # "main" => error # "AssertionError"
    /\ (pc = "resolve" \/ KcliquesReturned) => \A n \in Range(G.nodes) : InSomeClique(n)

C1_Witness ==
    /\ KcliquesReturned /\ ResolutionRemoved /\ Len(G.nodes) >= 3

\* C2: every input pair of IntervalPair.cluster is in at least one returned
\* group, isolated pairs included.
C2_EveryPairGrouped ==
    (entry = "cluster" /\ pc = "done") =>
        \A i \in 1..Len(pairs) : \E g \in 1..Len(complete_groups) : pairs[i] \in complete_groups[g]

\* C3: every returned clique has at most k members and is a complete
\* subgraph of G.
C3_CliquesCompleteAtMostK ==
    KcliquesReturned =>
        \A i \in 1..Len(refined_cliques) :
            /\ Cardinality(refined_cliques[i]) <= k
            /\ \A u \in refined_cliques[i], v \in refined_cliques[i] :
                   u # v => {u, v} \in G.edges
            /\ refined_cliques[i] \subseteq Range(G.nodes)

\* a component larger than k holds a clique of exactly k >= 2 members, and
\* resolution has shrunk another clique
C3_Witness ==
    /\ KcliquesReturned /\ ResolutionRemoved /\ k >= 2
    /\ \E i \in 1..Len(refined_cliques) : Cardinality(refined_cliques[i]) = k
    /\ \E c \in Range(connected_components(G)) : Cardinality(c) > k

\* C4: for k >= 1 clique search returns without raising any error.
C4_CliqueSearchTotal ==
    (entry = "kcliques" /\ k >= 1) => error = "none"

\* C5: the graph built by IntervalPair.cluster joins two distinct input pairs
\* exactly when their distance is at most r, and has no self-loops.
GraphBuilt ==
    /\ entry \in {"cluster", "cluster_breakpoint_pairs"}
    /\ pc \in {"kcliques", "enumerate", "refine", "resolve", "hierarchical", "merge",
               "materialize"}

C5_EdgeIffWithinRadius ==
    GraphBuilt =>
        /\ \A i \in 1..Len(pairs), j \in 1..Len(pairs) :
              i # j => (({pairs[i], pairs[j]} \in G.edges) <=>
                        (Abs(center2(pairs[i].start) - center2(pairs[j].start))
                         + Abs(center2(pairs[i].end) - center2(pairs[j].end)) <= 4 * r))
        /\ \A e \in G.edges : Cardinality(e) = 2 /\ e \subseteq Range(pairs)

\* some edge joins pairs at distance exactly r, and some two pairs are not joined
C5_Witness ==
    /\ GraphBuilt /\ r >= 1
    /\ \E e \in G.edges : \E u \in e, v \in e : u # v /\ dist4(u, v) = 4 * r
    /\ \E i \in 1..Len(pairs), j \in 1..Len(pairs) : i # j /\ {pairs[i], pairs[j]} \notin G.edges

\* C6 as stated: with k < 1 cluster_breakpoint_pairs never returns, whatever
\* the input list.
C6_KBelowOneNeverReturns ==
    (entry = "cluster_breakpoint_pairs" /\ k < 1) => pc # "done"

\* C6 amended: with k < 1 the run ends in the AttributeError of the first
\* bucket's clique search, before any clique is enumerated and with nothing
\* in the result; it returns (the empty mapping) only when no input was
\* placed in a bucket.
C6_KBelowOneRaisesInFirstBucket ==
    (entry = "cluster_breakpoint_pairs" /\ k < 1) =>
        /\ cliques = <<>> /\ refined_cliques = <<>> /\ result = <<>>
        /\ pc \in {"classify", "buckets", "cluster", "kcliques", "raised", "done"}
        /\ pc = "raised" => (error = "AttributeError" /\ bucket = 1)
        /\ pc # "raised" => error = "none"
        /\ pc = "done" => (node_sets = <<>> /\ input_pairs = <<>>)

C6_Witness ==
    /\ entry = "cluster_breakpoint_pairs" /\ k < 1 /\ pc = "raised"
    /\ error = "AttributeError" /\ Len(input_pairs) >= 2

\* total distance (times 4) from n to the other members of clique c, and the
\* comparison of two averages total / (size - 1)
TotalDist4(n, c) == SumF([x \in c \ {n} |-> dist4(n, x)], c \ {n})
AvgLess(n, c1, c2) ==
    TotalDist4(n, c1) * (Cardinality(c2) - 1) < TotalDist4(n, c2) * (Cardinality(c1) - 1)

\* C7: a resolution step for node n takes n out of exactly the cliques whose
\* average distance to n is strictly above the minimum over the cliques
\* holding n, and changes nothing else; n was in more than one clique.  A
\* step that raises changes no clique.
C7_ResolutionStep ==
    [][ /\ (pc = "resolve" /\ todo # <<>> /\ pc' = "resolve") =>
            LET n == Head(todo)[2]
                holding == {i \in 1..Len(refined_cliques) : n \in refined_cliques[i]}
                Worse(i) == i \in holding /\ \E j \in holding :
                                AvgLess(n, refined_cliques[j], refined_cliques[i])
            IN  /\ Cardinality(holding) > 1
                /\ Len(refined_cliques') = Len(refined_cliques)
                /\ \A i \in 1..Len(refined_cliques) :
                      refined_cliques'[i] =
                          IF Worse(i) THEN refined_cliques[i] \ {n} ELSE refined_cliques[i]
        /\ (pc = "resolve" /\ pc' = "raised") => refined_cliques' = refined_cliques
      ]_vars

\* a node has left one clique and another over-shared node is still to come
C7_Witness ==
    /\ pc = "resolve" /\ ResolutionRemoved /\ todo # <<>>

\* C8: a node stays in every clique whose average distance to it is minimal,
\* and the equidistant example returns exactly {a, c} and {b, c}.
EquidistantCall ==
    entry = "kcliques" /\ pairs = EquidistantPairs /\ r = 5 /\ k = DefaultK

C8_TiedNodeStays ==
    [][ /\ (pc = "resolve" /\ todo # <<>> /\ pc' = "resolve") =>
            LET n == Head(todo)[2]
                holding == {i \in 1..Len(refined_cliques) : n \in refined_cliques[i]}
            IN  \A i \in holding :
                    (\A j \in holding : ~AvgLess(n, refined_cliques[j], refined_cliques[i]))
                        => n \in refined_cliques'[i]
        /\ (EquidistantCall /\ pc' = "done") =>
            /\ Len(refined_cliques') = 2
            /\ Range(refined_cliques') =
                  {{EquidistantPairs[1], EquidistantPairs[3]},
                   {EquidistantPairs[2], EquidistantPairs[3]}}
      ]_vars

C8_Witness ==
    /\ EquidistantCall /\ pc = "done"
    /\ Cardinality(G.edges) = 2
    /\ \A i \in 1..Len(refined_cliques) : EquidistantPairs[3] \in refined_cliques[i]

\* C9: the two five-node examples: 4 edges, among them a-b, a-c, b-c; the
\* cliques returned are {a,b}, {c,d}, {e} and, with c = (6, 94),
\* {a,b,c}, {d}, {e}.
ExampleCall(prs) == entry = "kcliques" /\ pairs = prs /\ r = 10 /\ k = DefaultK

ExampleGraph(prs) ==
    /\ Cardinality(G.edges) = 4
    /\ {{prs[1], prs[2]}, {prs[1], prs[3]}, {prs[2], prs[3]}} \subseteq G.edges

C9_Examples ==
    /\ ExampleCall(KcliquesPairs1) =>
          /\ ExampleGraph(KcliquesPairs1)
          /\ pc = "done" =>
                /\ Len(refined_cliques) = 3
                /\ Range(refined_cliques) =
                      {{KcliquesPairs1[1], KcliquesPairs1[2]},
                       {KcliquesPairs1[3], KcliquesPairs1[4]}, {KcliquesPairs1[5]}}
    /\ ExampleCall(KcliquesPairs2) =>
          /\ ExampleGraph(KcliquesPairs2)
          /\ pc = "done" =>
                /\ Len(refined_cliques) = 3
                /\ Range(refined_cliques) =
                      {{KcliquesPairs2[1], KcliquesPairs2[2], KcliquesPairs2[3]},
                       {KcliquesPairs2[4]}, {KcliquesPairs2[5]}}

C9_Witness ==
    /\ ExampleCall(KcliquesPairs2) /\ pc = "done" /\ ResolutionRemoved

\* C10: the hierarchical merge of {a,b}, {c}, {d,e} with r = 12 returns
\* exactly the two groups {a,b,c} and {c,d,e}.
C10_HierarchicalExample ==
    (entry = "hierarchical" /\ groups = HierGroups /\ r = 12 /\ pc = "done") =>
        /\ Len(complete_groups) = 2
        /\ Range(complete_groups) = {{HierA, HierB, HierC}, {HierC, HierD, HierE}}

\* the hierarchical merge has returned its list (complete_groups)
HierarchicalReturned ==
    \/ entry \in {"cluster", "hierarchical"} /\ pc = "done"
    \/ entry = "cluster_breakpoint_pairs" /\ pc = "materialize"

\* C11: running the hierarchical merge again on the list it returned, with
\* the same r, returns the same set of groups.
C11_MergeIdempotent ==
    HierarchicalReturned =>
        Range(HierarchicalClustering(complete_groups, r)) = Range(complete_groups)

\* the consensus breakpoints lines 207-208 are meant to build for group c of
\* the bucket with the given key
ConsensusBreaks(key, c) ==
    LET ip == weighted_mean(c)
    IN  {Breakpoint(key[1], ip.start[1], ip.start[2], key[5], key[3]),
         Breakpoint(key[2], ip.end[1], ip.end[2], key[6], key[4])}

\* C12: materializing a bucket adds, for each of its final groups, a
\* consensus pair with the key's chromosomes, orientations, strands and
\* opposing_strands at the group's weighted-mean intervals, mapped to exactly
\* the inputs of the group's members.
C12_ConsensusPerGroup ==
    [][ pc = "materialize" =>
            \A i \in 1..Len(complete_groups) :
                \E j \in (Len(result) + 1)..Len(result') :
                    /\ {result'[j].bpp.break1, result'[j].bpp.break2}
                          = ConsensusBreaks(node_sets[bucket].key, complete_groups[i])
                    /\ result'[j].bpp.opposing_strands = node_sets[bucket].key[7]
                    /\ result'[j].inputs = {m.id : m \in complete_groups[i]}
      ]_vars

\* constructing a BreakpointPair from node n with the fields of a bucket key
\* raises InvalidRearrangement
InvalidUnderKey(key, n) ==
    BreakpointPair(Breakpoint(key[1], n.start[1], n.start[2], key[5], key[3]),
                   Breakpoint(key[2], n.end[1], n.end[2], key[6], key[4]),
                   key[7]).error = "InvalidRearrangement"

\* C13: after classification every input sits only under bucket keys whose
\* (orient1, orient2, opposing_strands) construction accepts, and under every
\* such key that agrees with the fields the input specifies.
C13_OnlyValidBuckets ==
    (entry = "cluster_breakpoint_pairs" /\ pc # "classify") =>
        /\ \A b \in 1..Len(node_sets) : \A i \in 1..Len(node_sets[b].group) :
               ~InvalidUnderKey(node_sets[b].key, node_sets[b].group[i])
        /\ \A i \in 1..Len(input_pairs) : \A o1 \in {"L", "R"}, o2 \in {"L", "R"} :
               LET bpp == input_pairs[i]
                   key == <<bpp.break1.chr, bpp.break2.chr, o1, o2, bpp.break1.strand,
                            bpp.break2.strand, bpp.opposing_strands>>
                   node == IntervalPair(Interval(bpp.break1.start, bpp.break1.end),
                                        Interval(bpp.break2.start, bpp.break2.end), i - 1)
               IN  (/\ bpp.break1.orient \in {"?", o1} /\ bpp.break2.orient \in {"?", o2}
                    /\ ~InvalidUnderKey(key, node))
                   => \E b \in 1..Len(node_sets) :
                          /\ node_sets[b].key = key
                          /\ node \in Range(node_sets[b].group)

OtherOrder(ho) == IF ho = "asc" THEN "desc" ELSE "asc"

\* C14: the outcome of IntervalPair.cluster (the set of groups returned, or
\* the exception) is the same when sets of nodes iterate in the other order.
C14_OrderIndependent ==
    (entry = "cluster" /\ pc \in {"done", "raised"}) =>
        [error |-> error, groups |-> IF error = "none" THEN Range(complete_groups) ELSE {}]
            = ClusterOutcome(pairs, r, k, OtherOrder(hashOrder))

\* BreakpointPair(args) has been called and has returned or raised
Called == entry = "BreakpointPair" /\ pc \in {"constructed", "raised"}

OrientSpecified(a) == a.b1.orient # "?" /\ a.b2.orient # "?"
BothStrands(a) == a.b1.strand # "?" /\ a.b2.strand # "?"
Inferred(a) == BoolStr(a.b1.strand # a.b2.strand)
\* the given opposing_strands, else the one inferred from two specified strands
KnownOpposing(a) ==
    IF a.opposing_strands # "None" THEN a.opposing_strands
    ELSE IF BothStrands(a) THEN Inferred(a) ELSE "None"
BadOrientations(a) ==
    /\ OrientSpecified(a)
    /\ \/ (a.b1.orient = a.b2.orient /\ KnownOpposing(a) = "False")
       \/ (a.b1.orient # a.b2.orient /\ KnownOpposing(a) = "True")
StrandConflict(a) ==
    BothStrands(a) /\ a.opposing_strands # "None" /\ a.opposing_strands # Inferred(a)
LeftLeftCall(a) ==
    /\ a.b1 = Breakpoint("1", 1, 1, "?", "L") /\ a.b2 = Breakpoint("1", 5, 5, "?", "L")
    /\ a.opposing_strands = "False"

\* C15 as stated: construction raises InvalidRearrangement exactly when both
\* orientations are specified, opposing_strands is known, and the
\* orientations are equal with it false or differ with it true.
C15_BadOrientationsRaise ==
    Called => (BadOrientations(args) <=> error = "InvalidRearrangement")

\* C15 amended: the same, except that a given opposing_strands that
\* disagrees with two specified strands raises AttributeError first; LEFT/LEFT
\* with opposing_strands=False on one chromosome raises InvalidRearrangement.
C15_BadOrientationsRaiseUnlessConflict ==
    Called =>
        /\ (BadOrientations(args) /\ ~StrandConflict(args)) <=> error = "InvalidRearrangement"
        /\ StrandConflict(args) => error = "AttributeError"
        /\ LeftLeftCall(args) => error = "InvalidRearrangement"

\* InvalidRearrangement on an opposing_strands inferred from the strands
C15_Witness ==
    /\ Called /\ error = "InvalidRearrangement"
    /\ args.opposing_strands = "None" /\ args.b1.orient # args.b2.orient

\* C16: an unset opposing_strands becomes (strand1 # strand2) when both
\* strands are specified; a given one that disagrees with two specified
\* strands fails; an unset one with a strand not specified fails; every
\* constructed pair has a boolean opposing_strands.
C16_OpposingStrandsResolved ==
    /\ Called =>
          /\ (BothStrands(args) /\ args.opposing_strands = "None") =>
                /\ error \in {"none", "InvalidRearrangement"}
                /\ error = "none" =>
                      objects[Len(objects)].opposing_strands = Inferred(args)
          /\ StrandConflict(args) => error # "none"
          /\ (args.opposing_strands = "None" /\ ~BothStrands(args)) => error # "none"
    /\ \A i \in 1..Len(objects) : objects[i].opposing_strands \in {"True", "False"}

\* a pair constructed with opposing_strands inferred as true
C16_Witness ==
    /\ Called /\ error = "none" /\ args.opposing_strands = "None"
    /\ objects[Len(objects)].opposing_strands = "True"

\* C17: a constructed pair has break1.key <= break2.key, and two pairs
\* constructed from the same breakpoints in exchanged order, other arguments
\* the same, have the same break1 and break2 and are equal.
C17_CanonicalAndEqual ==
    entry = "BreakpointPair" =>
        /\ \A i \in 1..Len(objects) :
               ~TupleLt(BreakpointKey(objects[i].break2), BreakpointKey(objects[i].break1))
        /\ \A i \in 1..Len(objects), j \in 1..Len(objects) :
               (/\ objects[i].args.b1 = objects[j].args.b2
                /\ objects[i].args.b2 = objects[j].args.b1
                /\ objects[i].args.opposing_strands = objects[j].args.opposing_strands)
               => /\ objects[i].break1 = objects[j].break1
                  /\ objects[i].break2 = objects[j].break2
                  /\ BreakpointPairEq(i, j)

\* every IntervalPair and every group of IntervalPairs the call works on
PairsInState == Range(pairs) \cup UNION Range(groups)
GroupsInState == Range(groups) \cup Range(queue) \cup Range(complete_groups)

\* C18: dist is the average of the distances between the start centers and
\* between the end centers; dist(x, x) = 0 and dist(x, y) = dist(y, x) for
\* all pairs the graph was built from or the merge works on, and the
\* distance of the two pairs of test_dist is 15.
C18_DistZeroSymmetric ==
    pc \in {"kcliques", "merge"} =>
        /\ \A x \in PairsInState, y \in PairsInState :
              /\ dist4(x, x) = 0
              /\ dist4(x, y) = dist4(y, x)
              /\ dist4(x, y) = Abs((x.start[1] + x.start[2]) - (y.start[1] + y.start[2]))
                               + Abs((x.end[1] + x.end[2]) - (y.end[1] + y.end[2]))
        /\ dist4(DistX, DistY) = 4 * 15
        /\ dist4(DistY, DistX) = 4 * 15

\* the graph has an edge between two pairs at a distance above zero
C18_Witness ==
    /\ GraphBuilt /\ pc = "kcliques"
    /\ \E e \in G.edges : \E u \in e, v \in e : dist4(u, v) > 0
    /\ \E x \in PairsInState, y \in PairsInState : x.start # y.start /\ x.end = y.end

MinOf(S) == CHOOSE x \in S : \A y \in S : x <= y
MaxOf(S) == CHOOSE x \in S : \A y \in S : y <= x
\* interval m is ordered and lies between the least start and the greatest
\* end of the intervals ivs
MeanWithin(m, ivs) ==
    LET lo == MinOf({iv[1] : iv \in ivs})
        hi == MaxOf({iv[2] : iv \in ivs})
    IN  m[1] <= m[2] /\ lo <= m[1] /\ m[1] <= hi /\ lo <= m[2] /\ m[2] <= hi

C20_SharedNodeOnlyWarns ==
    [][ (pc = "materialize" /\ MultiParticipation(pairs, complete_groups)) =>
            /\ "multiple clusters" \in warned'
            /\ pc' = "buckets" /\ error' = "none"
            /\ \A i \in 1..Len(pairs), c \in 1..Len(complete_groups) :
                   pairs[i] \in complete_groups[c] =>
                       \E j \in (Len(result) + 1)..Len(result') :
                           /\ pairs[i].id \in result'[j].inputs
                           /\ result'[j].inputs = {m.id : m \in complete_groups[c]}
      ]_vars

\* C21: in the list _redundant_maximal_kcliques returns no clique is equal to
\* or a subset of another returned clique.
C21_ReturnedCliquesMaximal ==
    KcliquesReturned =>
        \A i \in 1..Len(refined_cliques), j \in 1..Len(refined_cliques) :
            i # j => ~(refined_cliques[i] \subseteq refined_cliques[j])

Triple(p) == <<p.start[1], p.start[2], p.end[1], p.end[2], p.id>>

\* C22: two IntervalPairs are equal, and then hash equally, exactly when
\* their start, end and id are equal; a set of pairs has one element per
\* distinct (start, end, id), so the graph keeps pairs with equal intervals
\* and different ids as distinct nodes, and the set of test_sets has 2
\* elements.
C22_EqualityOnTriple ==
    pc = "kcliques" =>
        /\ \A x \in Range(pairs), y \in Range(pairs) :
              /\ IntervalPairEq(x, y) <=> Triple(x) = Triple(y)
              /\ IntervalPairEq(x, y) => IntervalPairHash(x) = IntervalPairHash(y)
        /\ Len(SetFrom(pairs \o pairs, <<>>)) = Cardinality({Triple(p) : p \in Range(pairs)})
        /\ Cardinality({Triple(n) : n \in Range(G.nodes)}) = Len(G.nodes)
        /\ \A i \in 1..Len(pairs), j \in 1..Len(pairs) :
              (i # j /\ {pairs[i], pairs[j]} \in G.edges) =>
                  \E a \in 1..Len(G.nodes), b \in 1..Len(G.nodes) :
                      a # b /\ G.nodes[a] = pairs[i] /\ G.nodes[b] = pairs[j]
        /\ Len(SetFrom(SetsTestPairs, <<>>)) = 2

\* the graph joins two pairs with equal intervals and different ids
C22_Witness ==
    /\ GraphBuilt /\ pc = "kcliques"
    /\ \E a \in 1..Len(G.nodes), b \in 1..Len(G.nodes) :
          /\ G.nodes[a].start = G.nodes[b].start /\ G.nodes[a].end = G.nodes[b].end
          /\ G.nodes[a].id # G.nodes[b].id
          /\ {G.nodes[a], G.nodes[b]} \in G.edges

ProperSubset(c, d) == c \subseteq d /\ c # d

\* C23: subset removal leaves exactly the found cliques that are not a proper
\* subset of another found clique, each once.
C23_SubsetRemovalExact ==
    [][ pc = "refine" =>
            /\ Range(refined_cliques') =
                  {c \in Range(cliques) : ~\E d \in Range(cliques) : ProperSubset(c, d)}
            /\ Cardinality(Range(refined_cliques')) = Len(refined_cliques')
      ]_vars

\* subset removal has dropped cliques of a component with more than k nodes
\* and kept at least two that overlap
C23_Witness ==
    /\ pc = "resolve" /\ refined_cliques = RemoveSubsets(cliques)
    /\ Len(refined_cliques) < Len(cliques)
    /\ \E c \in Range(connected_components(G)) : Cardinality(c) > k
    /\ \E i \in 1..Len(refined_cliques), j \in 1..Len(refined_cliques) :
          i # j /\ refined_cliques[i] \cap refined_cliques[j] # {}

\* C24: every pass of the hierarchical merge over a queue of n >= 1 groups
\* leaves a queue of at most n - 1 distinct groups, and with an empty queue
\* the merge returns; the queue never holds more groups than the call was
\* given.
C24_MergeTerminates ==
    [][ /\ (pc = "merge" /\ queue # <<>>) =>
              /\ Len(queue') <= Len(queue) - 1
              /\ Cardinality(Range(queue')) = Len(queue')
              /\ pc' = "merge"
        /\ (pc = "merge" /\ queue = <<>>) => pc' \in {"done", "materialize"}
        /\ (pc = "hierarchical" /\ pc' = "merge") => Len(queue') = Len(groups)
      ]_vars

\* a merge of at least three groups that took two passes to join them all
C24_Witness ==
    /\ entry = "hierarchical" /\ pc = "done" /\ Len(groups) >= 3
    /\ Len(complete_groups) = 1
    /\ complete_groups[1] = UNION Range(groups)

\* group i of queue q is within r of neither neighbour
Alone(q, i) ==
    /\ ~(i > 1 /\ GroupsWithinR(q[i - 1], q[i], r))
    /\ ~(i < Len(q) /\ GroupsWithinR(q[i], q[i + 1], r))
AloneGroups(q) ==
    LET idx == SelectSeq([i \in 1..Len(q) |-> i], LAMBDA i : Alone(q, i))
    IN  [n \in 1..Len(idx) |-> q[idx[n]]]
SortedByMean(q) ==
    \A i \in 1..(Len(q) - 1) : ~PairLt(weighted_mean(q[i + 1]), weighted_mean(q[i]))

\* C25: a pass works on a queue sorted by weighted mean; it appends to the
\* output, in order, exactly the groups within r of neither neighbour; the
\* next queue holds exactly the distinct unions of neighbours within r,
\* sorted again; no group of the output is in the next queue.
C25_PassStructure ==
    [][ (pc = "merge" /\ queue # <<>>) =>
            /\ SortedByMean(queue)
            /\ complete_groups' = complete_groups \o AloneGroups(queue)
            /\ Range(queue') =
                  {queue[i] \cup queue[i + 1] :
                      i \in {j \in 1..(Len(queue) - 1) :
                                GroupsWithinR(queue[j], queue[j + 1], r)}}
            /\ Cardinality(Range(queue')) = Len(queue')
            /\ SortedByMean(queue')
            /\ \A c \in Range(complete_groups') : c \notin Range(queue')
      ]_vars

\* a pass has put a group in the output and left unions for a further pass
C25_Witness ==
    /\ pc = "merge" /\ queue # <<>> /\ complete_groups # <<>>

\* number of cliques kept by the subset removal that contain n
Participation(n) == CountOf(RemoveSubsets(cliques), n)

\* C26: the resolution loop walks the nodes of participation count > 1, each
\* once, in non-increasing order of the count taken before any removal; a
\* step removes only the node at the head of that list, so a node of count 1
\* stays in its clique.
C26_ResolutionOrder ==
    [][ /\ (pc = "refine" /\ pc' = "resolve") =>
              /\ {todo'[i][2] : i \in 1..Len(todo')} =
                    {n \in Range(G.nodes) : CountOf(refined_cliques', n) > 1}
              /\ Cardinality({todo'[i][2] : i \in 1..Len(todo')}) = Len(todo')
              /\ \A i \in 1..Len(todo') :
                    todo'[i][1] = CountOf(refined_cliques', todo'[i][2])
              /\ \A i \in 1..(Len(todo') - 1) : todo'[i][1] >= todo'[i + 1][1]
        /\ (pc = "resolve" /\ pc' = "resolve" /\ todo # <<>>) =>
              /\ todo' = Tail(todo)
              /\ Head(todo)[1] = Participation(Head(todo)[2])
              /\ Head(todo)[1] > 1
              /\ \A i \in 1..Len(refined_cliques) :
                    /\ refined_cliques'[i] \subseteq refined_cliques[i]
                    /\ refined_cliques[i] \ refined_cliques'[i] \subseteq {Head(todo)[2]}
                    /\ \A n \in refined_cliques[i] :
                          Participation(n) <= 1 => n \in refined_cliques'[i]
      ]_vars

\* a node of count 3 has left a clique and a node of count 2 is next, while
\* some node of count 1 is still in its clique
C26_Witness ==
    /\ pc = "resolve" /\ todo # <<>> /\ Head(todo)[1] = 2
    /\ \E n \in Range(G.nodes) :
          /\ Participation(n) >= 3
          /\ CountOf(refined_cliques, n) < Participation(n)
    /\ \E n \in Range(G.nodes) : Participation(n) = 1 /\ InSomeClique(n)

\* C27: the batch splitting raises no exception, writes at most max_files
\* batch files, and writes every cluster to exactly one of them.
C27_BatchSplitting ==
    entry = "main" =>
        /\ error = "none"
        /\ pc = "done" =>
              /\ Len(output_files) <= max_files
              /\ \A c \in Range(cluster_keys) :
                    Cardinality({<<f, j>> \in (1..Len(file_rows)) \X (1..MaxClusters + 1) :
                                    j <= Len(file_rows[f]) /\ file_rows[f][j] = c}) = 1

\* C28: when the hierarchical merge returns, every input group lies whole in
\* some returned group, every returned group is the union of one or more
\* input groups, and the returned groups have the same members as the input.
C28_NoLossNoSplit ==
    HierarchicalReturned =>
        /\ \A g \in Range(groups) : \E c \in Range(complete_groups) : g \subseteq c
        /\ \A c \in Range(complete_groups) :
              \E S \in SUBSET (1..Len(groups)) :
                  S # {} /\ c = UNION {groups[i] : i \in S}
        /\ UNION Range(complete_groups) = UNION Range(groups)

\* the merge has returned one group that was alone and one union of inputs
C28_Witness ==
    /\ HierarchicalReturned /\ Len(groups) >= 3
    /\ \E c \in Range(complete_groups) : c \in Range(groups)
    /\ \E c \in Range(complete_groups) : c \notin Range(groups)

\* C29: every clique in the list _redundant_maximal_kcliques returns has at
\* least one member, and neither the hierarchical merge of those cliques nor
\* cluster_breakpoint_pairs takes a weighted mean of an empty group.
C29_CliquesNonEmpty ==
    /\ KcliquesReturned => \A i \in 1..Len(refined_cliques) : refined_cliques[i] # {}
    /\ entry \in {"cluster", "cluster_breakpoint_pairs"} =>
          /\ error # "EmptyInputError"
          /\ \A i \in 1..Len(queue) : queue[i] # {}
          /\ \A i \in 1..Len(complete_groups) : complete_groups[i] # {}

\* the resolution has left a clique with a single member in the returned list
C29_Witness ==
    /\ KcliquesReturned /\ ResolutionRemoved
    /\ \E i \in 1..Len(refined_cliques) :
          /\ Cardinality(refined_cliques[i]) = 1
          /\ Cardinality(RemoveSubsets(cliques)[i]) = 2

\* the buckets that hold a node of input number i (counted from 0)
BucketsOf(i) ==
    {b \in 1..Len(node_sets) : \E j \in 1..Len(node_sets[b].group) :
                                   node_sets[b].group[j].id = i}

\* C30: after classification the bucket keys are distinct; within a bucket
\* every input index occurs on at most one node; every node of a bucket comes
\* from an input with the chromosomes, strands and opposing_strands of the
\* bucket key, and with its orientations where the input specifies them; an
\* input with both orientations specified is in exactly one bucket; the
\* clusters of a bucket hold only nodes of that bucket, and every
\* contributing set of the result holds only inputs of one bucket.
C30_BucketsNeverMix ==
    (entry = "cluster_breakpoint_pairs" /\ pc # "classify") =>
        /\ \A a, b \in 1..Len(node_sets) : a # b => node_sets[a].key # node_sets[b].key
        /\ \A b \in 1..Len(node_sets) :
              LET key   == node_sets[b].key
                  group == node_sets[b].group
              IN  /\ \A i, j \in 1..Len(group) : i # j => group[i].id # group[j].id
                  /\ \A j \in 1..Len(group) :
                        /\ group[j].id \in 0..(Len(input_pairs) - 1)
                        /\ LET bpp == input_pairs[group[j].id + 1]
                           IN  /\ key[1] = bpp.break1.chr /\ key[2] = bpp.break2.chr
                               /\ key[5] = bpp.break1.strand /\ key[6] = bpp.break2.strand
                               /\ key[7] = bpp.opposing_strands
                               /\ bpp.break1.orient # "?" => key[3] = bpp.break1.orient
                               /\ bpp.break2.orient # "?" => key[4] = bpp.break2.orient
        /\ \A i \in 1..Len(input_pairs) :
              (input_pairs[i].break1.orient # "?" /\ input_pairs[i].break2.orient # "?")
                  => Cardinality(BucketsOf(i - 1)) = 1
        /\ pc = "materialize" =>
              \A c \in Range(complete_groups) : c \subseteq Range(node_sets[bucket].group)
        /\ \A e \in 1..Len(result) :
              \E b \in 1..Len(node_sets) :
                  result[e].inputs \subseteq {n.id : n \in Range(node_sets[b].group)}

\* the clusters of the first bucket have been formed; that bucket holds an
\* input that specifies its strands, and another input at the same positions
\* is spread over several other buckets
C30_Witness ==
    /\ entry = "cluster_breakpoint_pairs" /\ pc = "materialize" /\ bucket = 1
    /\ input_pairs = StrandedInputs
    /\ node_sets[bucket].key[5] # "?"
    /\ Cardinality(BucketsOf(2)) > 1 /\ bucket \notin BucketsOf(2)
    /\ \E c \in Range(complete_groups) : {n.id : n \in c} = {0, 3}

====
